---------------------------- MODULE Spec2Model ----------------------------
(***************************************************************************)
(* Case calendar: the Calendar component (case/hearing seed, flattened     *)
(* Event collection, add/edit/delete of hearings through the EventForm     *)
(* dialog), the WeeklyView component (days of the week, events of a day,   *)
(* week navigation) and the ListView component (per-case tag editing;      *)
(* search, status filter, sort and grouping).                              *)
(*                                                                         *)
(* Representation.                                                         *)
(*  - Text (titles, case numbers, notes, tags, "HH:MM" times) is a         *)
(*    sequence of one-character strings, so that trim() and split() are    *)
(*    computed character by character.                                     *)
(*  - Ids and status values are only compared for equality and are         *)
(*    TLA+ strings.                                                        *)
(*  - A Date is its getTime() value, an integer number of time units       *)
(*    since the epoch (UTC).  One day is DayMs units.  The content of an   *)
(*    <input type="date"> ('YYYY-MM-DD') is the day number since the       *)
(*    epoch.  Local time is UTC plus timeZone time units; the calendar is  *)
(*    that of 1970.                                                        *)
(*  - A property that is absent from a JavaScript object (undefined) is    *)
(*    the value Undefined; a nullable state (Event | null) is a sequence   *)
(*    of length at most one.                                               *)
(***************************************************************************)
EXTENDS Integers, Sequences, FiniteSets, TLC

VARIABLES
  cases,         \* Calendar: useState<Case[]>
  events,        \* Calendar: useState<Event[]>
  isModalOpen,   \* Calendar: useState(false)
  editingEvent,  \* Calendar: useState<Event | null>, <<>> is null
  formData,      \* EventForm: useState({...}), mounted while the dialog is open
  casesState,    \* ListView: useState<Case[]>(cases)
  newTag,        \* ListView: useState('')
  editingTags,   \* ListView: useState<string | null>, <<>> is null
  view,          \* Calendar: useState<'weekly' | 'list'>
  now,           \* the reading of the system clock (Date.now())
  currentWeek,   \* Calendar: useState(new Date()), the date the weekly view shows
  timeZone,      \* the offset of local time from UTC, in time units
  filter,        \* ListView: useState<'all' | 'new' | ...>('all')
  sortBy,        \* ListView: useState<'date' | 'case' | 'title'>('date')
  searchQuery,   \* ListView: useState('')
  expandedCases,     \* ListView: useState<Set<string>>(new Set())
  expandedHearings,  \* ListView: useState<Set<string>>(new Set())
  nOps,          \* number of save/delete/tag mutations performed so far
  lastOp         \* the submit, save, delete or tag handler that ran last,
                 \* and what it was given

vars == << cases, events, isModalOpen, editingEvent, formData,
           casesState, newTag, editingTags, view, now,
           currentWeek, timeZone, filter, sortBy, searchQuery,
           expandedCases, expandedHearings, nOps, lastOp >>

modalVars == << isModalOpen, editingEvent, formData >>
listVars == << casesState, newTag, editingTags >>
weekVars == << currentWeek, timeZone >>
queryVars == << filter, sortBy, searchQuery >>
expandVars == << expandedCases, expandedHearings >>

-----------------------------------------------------------------------------
(* Bounds of the model *)

\* the resolution of time: the number of time units per day (86400000 in
\* Calendar.tsx, where the unit is the millisecond)
DayMs == 4
\* the clock readings at which the application may be mounted
StartClocks == {9}
\* the clock is not observed beyond this reading
MaxClock == 10
\* number of mutating operations (save, delete, add tag, remove tag) explored
MaxOps == 2
\* the user edits or deletes one of the last MaxTargets events of the collection
MaxTargets == 2
\* the weekly view is mounted on one of the days FirstDay..LastDay (day
\* numbers since the epoch: Friday 27 March to Monday 6 April 1970)
FirstDay == 85
LastDay == 95
\* the user navigates at most MaxWeeks weeks away from the day of the mount
MaxWeeks == 2
\* the offsets of local time from UTC, in time units
TimeZones == { -1, 0, 1 }

Undefined == "undefined"

-----------------------------------------------------------------------------
(* Text *)

RECURSIVE trimStart(_)
trimStart(s) ==
  IF s = <<>> THEN s
  ELSE IF Head(s) = " " THEN trimStart(Tail(s)) ELSE s

RECURSIVE trimEnd(_)
trimEnd(s) ==
  IF s = <<>> THEN s
  ELSE IF s[Len(s)] = " " THEN trimEnd(SubSeq(s, 1, Len(s) - 1)) ELSE s

\* String.prototype.trim, with the space as the only white space character
trim(s) == trimEnd(trimStart(s))

\* does sep occur in s at position i
MatchAt(s, sep, i) ==
  /\ i + Len(sep) - 1 <= Len(s)
  /\ \A k \in 1..Len(sep) : s[i + k - 1] = sep[k]

RECURSIVE splitFrom(_, _, _, _)
splitFrom(s, sep, i, start) ==
  IF i > Len(s) THEN << SubSeq(s, start, Len(s)) >>
  ELSE IF MatchAt(s, sep, i)
       THEN << SubSeq(s, start, i - 1) >>
              \o splitFrom(s, sep, i + Len(sep), i + Len(sep))
       ELSE splitFrom(s, sep, i + 1, start)

\* String.prototype.split with a non-empty separator
split(s, sep) == splitFrom(s, sep, 1, 1)

\* Array.prototype.includes
includes(seq, x) == \E i \in 1..Len(seq) : seq[i] = x

\* the letters, lower case and upper case
LowerCase ==
  << "a","b","c","d","e","f","g","h","i","j","k","l","m",
     "n","o","p","q","r","s","t","u","v","w","x","y","z" >>
UpperCase ==
  << "A","B","C","D","E","F","G","H","I","J","K","L","M",
     "N","O","P","Q","R","S","T","U","V","W","X","Y","Z" >>

toLowerChar(c) ==
  IF \E k \in 1..Len(UpperCase) : UpperCase[k] = c
  THEN LowerCase[CHOOSE k \in 1..Len(UpperCase) : UpperCase[k] = c]
  ELSE c

\* String.prototype.toLowerCase
toLowerCase(s) == [ i \in 1..Len(s) |-> toLowerChar(s[i]) ]

\* String.prototype.includes: q is a substring of s (the empty string is a
\* substring of every string)
stringIncludes(s, q) == \E i \in 1..(Len(s) + 1) : MatchAt(s, q, i)

\* the order of the characters in the collation of localeCompare: white
\* space, punctuation, digits, letters
Collation ==
  << " ", "-", ":", "." >>
    \o << "0","1","2","3","4","5","6","7","8","9" >> \o LowerCase

\* the primary weight of a character: its place in the collation, an upper
\* case letter at the place of its lower case letter
weight(c) == CHOOSE k \in 1..Len(Collation) : Collation[k] = toLowerChar(c)

\* the tertiary weight of a character: lower case before upper case
caseWeight(c) == IF toLowerChar(c) = c THEN 0 ELSE 1

RECURSIVE compareNumbers(_, _)
\* the lexicographic comparison of two sequences of numbers: -1, 0 or 1
compareNumbers(a, b) ==
  IF a = <<>> /\ b = <<>> THEN 0
  ELSE IF a = <<>> THEN -1
  ELSE IF b = <<>> THEN 1
  ELSE IF Head(a) < Head(b) THEN -1
  ELSE IF Head(a) > Head(b) THEN 1
  ELSE compareNumbers(Tail(a), Tail(b))

\* String.prototype.localeCompare: the letters, digits and punctuation
\* decide; texts that differ in case only are ordered by case
localeCompare(a, b) ==
  LET primary == compareNumbers([ i \in 1..Len(a) |-> weight(a[i]) ],
                                [ i \in 1..Len(b) |-> weight(b[i]) ])
  IN IF primary # 0 THEN primary
     ELSE compareNumbers([ i \in 1..Len(a) |-> caseWeight(a[i]) ],
                         [ i \in 1..Len(b) |-> caseWeight(b[i]) ])

-----------------------------------------------------------------------------
(* Dates *)

\* date.toISOString().split('T')[0]: the UTC calendar day of an instant
toISODate(t) == t \div DayMs

\* new Date('YYYY-MM-DD'): midnight UTC of that day
newDate(d) == d * DayMs

\* the lengths of the months of 1970, the year of the epoch; dates are
\* explored within this year
MonthLengths == << 31, 28, 31, 30, 31, 30, 31, 31, 30, 31, 30, 31 >>

RECURSIVE MonthStart(_)
\* the day number (since the epoch) of the first day of month m
MonthStart(m) ==
  IF m = 1 THEN 0 ELSE MonthStart(m - 1) + MonthLengths[m - 1]

\* the local calendar day of a Date, as a day number since the epoch
LocalDay(t) == (t + timeZone) \div DayMs

\* the local time of day of a Date, in time units
LocalTimeOfDay(t) == (t + timeZone) % DayMs

\* the Date of a local calendar day and local time of day
FromLocal(day, timeOfDay) == day * DayMs + timeOfDay - timeZone

\* Date.prototype.getMonth(), counted from 1
getMonth(t) ==
  CHOOSE m \in 1..Len(MonthLengths) :
    MonthStart(m) <= LocalDay(t) /\ LocalDay(t) < MonthStart(m + 1)

\* Date.prototype.getDate(): the day of the month, in local time
getDate(t) == LocalDay(t) - MonthStart(getMonth(t)) + 1

\* Date.prototype.getDay(): 0 is Sunday; the epoch was a Thursday
getDay(t) == (LocalDay(t) + 4) % 7

\* Date.prototype.setDate(n): day n of the month the Date is in, in local
\* time; n below 1 or beyond the month's length runs into the next months
setDate(t, n) == FromLocal(MonthStart(getMonth(t)) + n - 1, LocalTimeOfDay(t))

\* Date.prototype.toDateString(): weekday, month, day (and year) in local time
toDateString(t) == << getDay(t), getMonth(t), getDate(t) >>

-----------------------------------------------------------------------------
(* Seed data: Calendar's mount effect, run at clock reading t *)

sampleCases(t) ==
  <<
    \* case '1': 2024-001, 'Smith vs. Johnson Contract Dispute'
    [ id |-> "1",
      caseNumber |-> <<"2","0","2","4","-","0","0","1">>,
      title |-> <<"S","m","i","t","h"," ","v","s","."," ","J","o","h","n","s","o","n"," ","C","o","n","t","r","a","c","t"," ","D","i","s","p","u","t","e">>,
      description |-> <<"C","o","n","t","r","a","c","t"," ","d","i","s","p","u","t","e"," ","r","e","g","a","r","d","i","n","g"," ","c","o","n","s","t","r","u","c","t","i","o","n"," ","s","e","r","v","i","c","e","s">>,
      \* tags: contract, construction, dispute, commercial
      tags |-> << <<"c","o","n","t","r","a","c","t">>,
                 <<"c","o","n","s","t","r","u","c","t","i","o","n">>,
                 <<"d","i","s","p","u","t","e">>,
                 <<"c","o","m","m","e","r","c","i","a","l">> >>,
      hearings |-> <<
        \* '1-h1': 'Initial Hearing', 09:00-10:30
        [ id |-> "1-h1",
          title |-> <<"I","n","i","t","i","a","l"," ","H","e","a","r","i","n","g">>,
          notes |-> <<"B","r","i","n","g"," ","a","l","l"," ","p","r","e","l","i","m","i","n","a","r","y"," ","d","o","c","u","m","e","n","t","s"," ","a","n","d"," ","e","v","i","d","e","n","c","e">>,
          date |-> t,
          startTime |-> <<"0","9",":","0","0">>,
          endTime |-> <<"1","0",":","3","0">>,
          status |-> "new" ],
        \* '1-h2': 'Evidence Review Hearing', 11:00-12:30
        [ id |-> "1-h2",
          title |-> <<"E","v","i","d","e","n","c","e"," ","R","e","v","i","e","w"," ","H","e","a","r","i","n","g">>,
          notes |-> <<"S","c","h","e","d","u","l","e"," ","m","o","v","e","d"," ","d","u","e"," ","t","o"," ","j","u","d","g","e"," ","a","v","a","i","l","a","b","i","l","i","t","y">>,
          date |-> t,
          startTime |-> <<"1","1",":","0","0">>,
          endTime |-> <<"1","2",":","3","0">>,
          status |-> "rescheduled" ],
        \* '1-h3': 'Closing Arguments', 14:00-16:00
        [ id |-> "1-h3",
          title |-> <<"C","l","o","s","i","n","g"," ","A","r","g","u","m","e","n","t","s">>,
          notes |-> <<"P","r","e","p","a","r","e"," ","f","i","n","a","l"," ","s","t","a","t","e","m","e","n","t"," ","s","u","m","m","a","r","y">>,
          date |-> t,
          startTime |-> <<"1","4",":","0","0">>,
          endTime |-> <<"1","6",":","0","0">>,
          status |-> "new" ]
      >> ],
    \* case '2': 2024-002, 'Williams Personal Injury Case'
    [ id |-> "2",
      caseNumber |-> <<"2","0","2","4","-","0","0","2">>,
      title |-> <<"W","i","l","l","i","a","m","s"," ","P","e","r","s","o","n","a","l"," ","I","n","j","u","r","y"," ","C","a","s","e">>,
      description |-> <<"P","e","r","s","o","n","a","l"," ","i","n","j","u","r","y"," ","c","l","a","i","m"," ","f","r","o","m"," ","v","e","h","i","c","l","e"," ","a","c","c","i","d","e","n","t">>,
      \* tags: personal-injury, accident, insurance, medical
      tags |-> << <<"p","e","r","s","o","n","a","l","-","i","n","j","u","r","y">>,
                 <<"a","c","c","i","d","e","n","t">>,
                 <<"i","n","s","u","r","a","n","c","e">>,
                 <<"m","e","d","i","c","a","l">> >>,
      hearings |-> <<
        \* '2-h1': 'Settlement Conference', 10:00-15:00
        [ id |-> "2-h1",
          title |-> <<"S","e","t","t","l","e","m","e","n","t"," ","C","o","n","f","e","r","e","n","c","e">>,
          notes |-> <<"C","a","n","c","e","l","l","e","d"," ","d","u","e"," ","t","o"," ","p","l","a","i","n","t","i","f","f"," ","u","n","a","v","a","i","l","a","b","i","l","i","t","y">>,
          date |-> t + DayMs,
          startTime |-> <<"1","0",":","0","0">>,
          endTime |-> <<"1","5",":","0","0">>,
          status |-> "cancelled" ],
        \* '2-h2': 'Mediation Hearing', 09:00-12:00
        [ id |-> "2-h2",
          title |-> <<"M","e","d","i","a","t","i","o","n"," ","H","e","a","r","i","n","g">>,
          notes |-> <<"C","o","u","r","t","-","o","r","d","e","r","e","d"," ","m","e","d","i","a","t","i","o","n"," ","a","t","t","e","m","p","t">>,
          date |-> t + 2 * DayMs,
          startTime |-> <<"0","9",":","0","0">>,
          endTime |-> <<"1","2",":","0","0">>,
          status |-> "new" ]
      >> ]
  >>

RECURSIVE flattenHearings(_, _)
\* caseItem.hearings.forEach(hearing => flattenedEvents.push({...}))
flattenHearings(caseItem, hs) ==
  IF hs = <<>> THEN <<>>
  ELSE << [ id |-> Head(hs).id,
            title |-> caseItem.caseNumber \o <<":", " ">> \o Head(hs).title,
            description |-> caseItem.description,
            notes |-> Head(hs).notes,
            date |-> Head(hs).date,
            startTime |-> Head(hs).startTime,
            endTime |-> Head(hs).endTime,
            type |-> "hearing",
            status |-> Head(hs).status,
            caseNumber |-> caseItem.caseNumber,
            parentId |-> caseItem.id ] >>
       \o flattenHearings(caseItem, Tail(hs))

RECURSIVE flattenCasesReversed(_)
\* the flattening with the Cases taken last to first
flattenCasesReversed(cs) ==
  IF cs = <<>> THEN <<>>
  ELSE flattenCasesReversed(Tail(cs))
         \o flattenHearings(Head(cs), Head(cs).hearings)

RECURSIVE flatten(_)
\* sampleCases.forEach(caseItem => ...)
flatten(cs) ==
  IF cs = <<>> THEN <<>>
  ELSE flattenHearings(Head(cs), Head(cs).hearings) \o flatten(Tail(cs))

-----------------------------------------------------------------------------
(* EventForm *)

\* the initial useState value of EventForm, mounted at clock reading t
initialFormData(t) ==
  [ title |-> <<>>,
    description |-> <<>>,
    notes |-> <<>>,
    caseNumber |-> <<>>,
    date |-> toISODate(t),
    startTime |-> <<"0","9",":","0","0">>,
    endTime |-> <<"1","0",":","0","0">>,
    status |-> "new" ]

\* the useEffect on initialEvent: the form filled from the event to edit
formDataOf(initialEvent) ==
  LET titleParts == split(initialEvent.title, <<":", " ">>)
      caseNumber == IF Len(titleParts) > 1 THEN titleParts[1] ELSE <<>>
      title == IF Len(titleParts) > 1 THEN titleParts[2]
               ELSE initialEvent.title
  IN [ title |-> title,
       description |-> initialEvent.description,
       notes |-> initialEvent.notes,
       caseNumber |-> IF initialEvent.caseNumber # <<>>
                      THEN initialEvent.caseNumber ELSE caseNumber,
       date |-> toISODate(initialEvent.date),
       startTime |-> initialEvent.startTime,
       endTime |-> initialEvent.endTime,
       status |-> initialEvent.status ]

\* handleSubmit's guard without the trimming
isValidUntrimmed(fd) == fd.title # <<>> /\ fd.caseNumber # <<>>

\* handleSubmit's guard: both required fields are non-empty after trimming
isValid(fd) == trim(fd.title) # <<>> /\ trim(fd.caseNumber) # <<>>

\* the object handleSubmit passes to onSave; it has neither id nor parentId
eventDataOf(fd) ==
  [ id |-> Undefined,
    title |-> fd.caseNumber \o <<":", " ">> \o trim(fd.title),
    description |-> trim(fd.description),
    notes |-> trim(fd.notes),
    caseNumber |-> trim(fd.caseNumber),
    date |-> newDate(fd.date),
    startTime |-> fd.startTime,
    endTime |-> fd.endTime,
    type |-> "hearing",
    status |-> fd.status,
    parentId |-> Undefined ]

\* what the user can put into each field of the form
FieldInputs ==
  [ title |-> { <<" ">>, <<"A", ":", " ", "B">> },
    caseNumber |-> { <<"2","0","2","4","-","0","0","1"," ">> },
    description |-> {},
    notes |-> {},
    date |-> {},
    startTime |-> {},
    endTime |-> {},
    status |-> {} ]

-----------------------------------------------------------------------------
(* Calendar: the handlers as functions of the previous Event collection *)

\* Date.now().toString()
newId(t) == ToString(t)

\* setEvents(prev => [...prev, newEvent])
handleAddEvent(prev, eventData, t) ==
  Append(prev, [eventData EXCEPT !.id = newId(t)])

\* an edit that drops the Event and appends its replacement
handleEditEventAppend(prev, editing, eventData) ==
  Append(SelectSeq(prev, LAMBDA event : event.id # editing.id),
         [eventData EXCEPT !.id = editing.id])

\* setEvents(prev => prev.map(event => event.id === editingEvent.id ? ... ))
handleEditEvent(prev, editing, eventData) ==
  [ i \in 1..Len(prev) |->
      IF prev[i].id = editing.id
      THEN [eventData EXCEPT !.id = editing.id]
      ELSE prev[i] ]

\* a delete whose filter test is inverted
handleDeleteEventInverted(prev, eventId) ==
  SelectSeq(prev, LAMBDA event : event.id = eventId)

\* setEvents(prev => prev.filter(event => event.id !== eventId))
handleDeleteEvent(prev, eventId) ==
  SelectSeq(prev, LAMBDA event : event.id # eventId)

-----------------------------------------------------------------------------
(* ListView: tag editing *)

\* an add that does not look for the tag among the tags of the Case
addTagUnchecked(prevCases, caseId, tag) ==
  [ i \in 1..Len(prevCases) |->
      IF prevCases[i].id = caseId
      THEN [prevCases[i] EXCEPT !.tags = Append(@, tag)]
      ELSE prevCases[i] ]

\* an add that puts the tag in front of the tags of the Case
addTagPrepended(prevCases, caseId, tag) ==
  [ i \in 1..Len(prevCases) |->
      IF prevCases[i].id = caseId /\ ~includes(prevCases[i].tags, tag)
      THEN [prevCases[i] EXCEPT !.tags = << tag >> \o @]
      ELSE prevCases[i] ]

\* prevCases.map(c => c.id === caseId && !c.tags.includes(tag) ? ... : c)
\* with tag = newTag.trim()
addTag(prevCases, caseId, tag) ==
  [ i \in 1..Len(prevCases) |->
      IF prevCases[i].id = caseId /\ ~includes(prevCases[i].tags, tag)
      THEN [prevCases[i] EXCEPT !.tags = Append(@, tag)]
      ELSE prevCases[i] ]

\* a remove that does not look at the id of the Case
removeTagEverywhere(prevCases, caseId, tagToRemove) ==
  [ i \in 1..Len(prevCases) |->
      [prevCases[i] EXCEPT
         !.tags = SelectSeq(@, LAMBDA tag : tag # tagToRemove)] ]

\* prevCases.map(c => c.id === caseId
\*                      ? {...c, tags: c.tags.filter(tag => tag !== tagToRemove)} : c)
removeTag(prevCases, caseId, tagToRemove) ==
  [ i \in 1..Len(prevCases) |->
      IF prevCases[i].id = caseId
      THEN [prevCases[i] EXCEPT
              !.tags = SelectSeq(@, LAMBDA tag : tag # tagToRemove)]
      ELSE prevCases[i] ]

\* what the user can type into the tag input
TagInputs ==
  { <<" ">>, <<"x">>, <<" ", "x", " ">>, <<"X">>,
    <<" ","c","o","n","t","r","a","c","t">> }

\* a tag that no Case carries
AbsentTag == <<"z">>

\* an id that no Case has
UnknownCaseId == "3"

\* an id that no Event has
UnknownEventId == "0"

-----------------------------------------------------------------------------
(* ListView: the colour of a tag *)

\* the printable characters in the order of their character codes, from the
\* space (code 32) to the underscore (code 95)
PrintableLow ==
  <<
     " ", "!", "\"", "#", "$", "%", "&", "'", "(", ")", "*", "+", ",", "-", ".", "/",
     "0", "1", "2", "3", "4", "5", "6", "7", "8", "9", ":", ";", "<", "=", ">", "?",
     "@", "A", "B", "C", "D", "E", "F", "G", "H", "I", "J", "K", "L", "M", "N", "O",
     "P", "Q", "R", "S", "T", "U", "V", "W", "X", "Y", "Z", "[", "\\", "]", "^", "_" >>

\* and from the letter a (code 97) to the tilde (code 126)
PrintableHigh ==
  <<
     "a", "b", "c", "d", "e", "f", "g", "h", "i", "j", "k", "l", "m", "n", "o", "p",
     "q", "r", "s", "t", "u", "v", "w", "x", "y", "z", "{", "|", "}", "~" >>

\* the character code of every printable character
CharCodes ==
  [ c \in { PrintableLow[k] : k \in 1..Len(PrintableLow) }
            \cup { PrintableHigh[k] : k \in 1..Len(PrintableHigh) } |->
      IF \E k \in 1..Len(PrintableLow) : PrintableLow[k] = c
      THEN 31 + (CHOOSE k \in 1..Len(PrintableLow) : PrintableLow[k] = c)
      ELSE 96 + (CHOOSE k \in 1..Len(PrintableHigh) : PrintableHigh[k] = c) ]

\* String.prototype.charCodeAt(0) of a one-character string
charCodeAt(c) == CharCodes[c]

\* tagColors: the palette, pairs of a base style and a hover style
tagColors ==
  <<
     [ base |-> "bg-blue-100 text-blue-800",
       hover |-> "hover:bg-blue-200 hover:text-blue-900" ],
     [ base |-> "bg-green-100 text-green-800",
       hover |-> "hover:bg-green-200 hover:text-green-900" ],
     [ base |-> "bg-yellow-100 text-yellow-800",
       hover |-> "hover:bg-yellow-200 hover:text-yellow-900" ],
     [ base |-> "bg-red-100 text-red-800",
       hover |-> "hover:bg-red-200 hover:text-red-900" ],
     [ base |-> "bg-purple-100 text-purple-800",
       hover |-> "hover:bg-purple-200 hover:text-purple-900" ],
     [ base |-> "bg-pink-100 text-pink-800",
       hover |-> "hover:bg-pink-200 hover:text-pink-900" ],
     [ base |-> "bg-indigo-100 text-indigo-800",
       hover |-> "hover:bg-indigo-200 hover:text-indigo-900" ],
     [ base |-> "bg-orange-100 text-orange-800",
       hover |-> "hover:bg-orange-200 hover:text-orange-900" ],
     [ base |-> "bg-teal-100 text-teal-800",
       hover |-> "hover:bg-teal-200 hover:text-teal-900" ],
     [ base |-> "bg-cyan-100 text-cyan-800",
       hover |-> "hover:bg-cyan-200 hover:text-cyan-900" ]
  >>

RECURSIVE hashOf(_)
\* tag.split('').reduce((acc, char) => acc + char.charCodeAt(0), 0)
hashOf(tag) ==
  IF tag = <<>> THEN 0 ELSE hashOf(SubSeq(tag, 1, Len(tag) - 1))
                              + charCodeAt(tag[Len(tag)])

\* a colour chosen by the length of the tag
getTagColorByLength(tag) ==
  LET colorSet == tagColors[(Len(tag) % Len(tagColors)) + 1]
  IN << colorSet.base, " ", colorSet.hover >>

\* getTagColor(tag): colorSet.base, a space and colorSet.hover, with
\* colorSet = tagColors[hash % tagColors.length] (indices count from 0 in
\* the code, from 1 here)
getTagColor(tag) ==
  LET colorSet == tagColors[(hashOf(tag) % Len(tagColors)) + 1]
  IN << colorSet.base, " ", colorSet.hover >>

-----------------------------------------------------------------------------
(* ListView: search, status filter, sort and grouping *)

\* the predicate of casesState.filter: does the Case pass the search
matchesSearch(caseItem) ==
  IF trim(searchQuery) = <<>> THEN TRUE
  ELSE LET query == toLowerCase(searchQuery)
       IN \/ stringIncludes(toLowerCase(caseItem.title), query)
          \/ stringIncludes(toLowerCase(caseItem.description), query)
          \/ stringIncludes(toLowerCase(caseItem.caseNumber), query)
          \/ \E i \in 1..Len(caseItem.tags) :
               stringIncludes(toLowerCase(caseItem.tags[i]), query)
          \/ \E i \in 1..Len(caseItem.hearings) :
               \/ stringIncludes(toLowerCase(caseItem.hearings[i].title), query)
               \/ stringIncludes(toLowerCase(caseItem.hearings[i].notes), query)

\* filteredCases = casesState.filter(...)
filteredCases == SelectSeq(casesState, matchesSearch)

\* a status filter that also wants the search to match the Event itself
retainedByOwnText(event) ==
  /\ filter = "all" \/ event.status = filter
  /\ \E i \in 1..Len(filteredCases) : filteredCases[i].id = event.parentId
  /\ \/ trim(searchQuery) = <<>>
     \/ stringIncludes(toLowerCase(event.title), toLowerCase(searchQuery))
     \/ stringIncludes(toLowerCase(event.notes), toLowerCase(searchQuery))

\* the predicate of events.filter: the status filter, then the Case of the
\* Event among the filtered Cases
retained(event) ==
  IF filter # "all" /\ event.status # filter THEN FALSE
  ELSE \E i \in 1..Len(filteredCases) : filteredCases[i].id = event.parentId

\* the comparator of the sort: negative, zero or positive
compareEvents(a, b) ==
  IF sortBy = "date"
  THEN IF a.date = b.date THEN localeCompare(a.startTime, b.startTime)
       ELSE a.date - b.date
  ELSE IF sortBy = "case" THEN localeCompare(a.caseNumber, b.caseNumber)
  ELSE localeCompare(a.title, b.title)

RECURSIVE insertSorted(_, _)
\* x put into the sorted sequence before the first element that the
\* comparator places after x
insertSorted(sorted, x) ==
  IF sorted = <<>> THEN << x >>
  ELSE IF compareEvents(Head(sorted), x) > 0 THEN << x >> \o sorted
       ELSE << Head(sorted) >> \o insertSorted(Tail(sorted), x)

RECURSIVE sort(_)
\* Array.prototype.sort with the comparator above; the sort is stable
sort(seq) ==
  IF seq = <<>> THEN <<>>
  ELSE insertSorted(sort(SubSeq(seq, 1, Len(seq) - 1)), seq[Len(seq)])

\* filteredEvents = events.filter(...).sort(...)
filteredEvents == sort(SelectSeq(events, retained))

\* event.parentId || 'unknown'
caseKeyOf(event) ==
  IF event.parentId = Undefined THEN "unknown" ELSE event.parentId

\* one step of the reduce: acc is the object built so far, as the sequence
\* of its properties in the order of their creation
groupStep(acc, event) ==
  LET caseKey == caseKeyOf(event)
      found == SelectSeq(filteredCases, LAMBDA c : c.id = caseKey)
  IN IF found = <<>> THEN acc
     ELSE IF \E i \in 1..Len(acc) : acc[i].key = caseKey
     THEN [ i \in 1..Len(acc) |->
              IF acc[i].key = caseKey
              THEN [acc[i] EXCEPT !.hearings = Append(@, event)]
              ELSE acc[i] ]
     ELSE Append(acc, [ key |-> caseKey,
                        caseNumber |-> event.caseNumber,
                        caseData |-> found[1],
                        hearings |-> << event >> ])

RECURSIVE reduce(_, _)
\* Array.prototype.reduce with the callback above
reduce(seq, acc) ==
  IF seq = <<>> THEN acc
  ELSE reduce(Tail(seq), groupStep(acc, Head(seq)))

\* a grouping that starts with a group without hearings for every filtered
\* Case
groupedByFilteredCases ==
  reduce(filteredEvents,
         [ i \in 1..Len(filteredCases) |->
             [ key |-> filteredCases[i].id,
               caseNumber |-> filteredCases[i].caseNumber,
               caseData |-> filteredCases[i],
               hearings |-> <<>> ] ])

\* groupedByCases = filteredEvents.reduce(..., {})
groupedByCases == reduce(filteredEvents, <<>>)

\* the number a property key stands for when it is the canonical text of a
\* non-negative integer (of one digit, in this model), otherwise -1
arrayIndex(key) ==
  IF \E n \in 0..9 : ToString(n) = key
  THEN CHOOSE n \in 0..9 : ToString(n) = key
  ELSE -1

RECURSIVE indexEntries(_, _)
\* the properties of obj whose key is an integer from n to 9, in ascending
\* order of the integer
indexEntries(obj, n) ==
  IF n > 9 THEN <<>>
  ELSE SelectSeq(obj, LAMBDA e : arrayIndex(e.key) = n)
         \o indexEntries(obj, n + 1)

\* Object.entries(obj): the properties whose key is an integer in ascending
\* order of the integer, then the other properties in the order of creation
objectEntries(obj) ==
  indexEntries(obj, 0) \o SelectSeq(obj, LAMBDA e : arrayIndex(e.key) < 0)

\* the groups in the order in which the list shows them
groups == objectEntries(groupedByCases)

-----------------------------------------------------------------------------
(* WeeklyView: the days of the week and the events of a day *)

\* the day on which the week of date starts: date.getDate() + diff set on a
\* copy of date
startOfWeek(date) ==
  LET dayOfWeek == getDay(date)
      diff == IF dayOfWeek = 0 THEN -6 ELSE 1 - dayOfWeek
  IN setDate(date, getDate(date) + diff)

\* a getWeekDays whose days are copies of date, not of the start of the week
getWeekDaysOfDate(date) ==
  [ i \in 1..5 |-> setDate(date, getDate(startOfWeek(date)) + (i - 1)) ]

\* getWeekDays(date): five copies of the start of the week, day i set to
\* startOfWeek.getDate() + i for i = 0..4
getWeekDays(date) ==
  [ i \in 1..5 |->
      setDate(startOfWeek(date), getDate(startOfWeek(date)) + (i - 1)) ]

\* a getEventsForDay that compares the dates in UTC
getEventsForDayUTC(date) ==
  SelectSeq(events, LAMBDA event : toISODate(event.date) = toISODate(date))

\* getEventsForDay(date):
\* events.filter(event => event.date.toDateString() === date.toDateString())
getEventsForDay(date) ==
  SelectSeq(events,
            LAMBDA event : toDateString(event.date) = toDateString(date))

\* the value of Number(text) for a text that is not a number
NaN == -1

\* the digits in the order of their value
Digits == << "0", "1", "2", "3", "4", "5", "6", "7", "8", "9" >>

RECURSIVE digitsValue(_)
\* the number written by a text of digits
digitsValue(text) ==
  IF text = <<>> THEN 0
  ELSE 10 * digitsValue(SubSeq(text, 1, Len(text) - 1))
         + (CHOOSE d \in 0..9 : Digits[d + 1] = text[Len(text)])

\* Number(text) for the texts of the model: 0 for a blank text, the number
\* for a text of digits (with white space around it), NaN otherwise
Number(text) ==
  IF trim(text) = <<>> THEN 0
  ELSE IF \A i \in 1..Len(trim(text)) : includes(Digits, trim(text)[i])
  THEN digitsValue(trim(text))
  ELSE NaN

\* const [hour] = event.startTime.split(':').map(Number)
hourOf(event) == Number(split(event.startTime, << ":" >>)[1])

\* getMorningEvents(dayEvents): hour < 12 (false for NaN)
getMorningEvents(dayEvents) ==
  SelectSeq(dayEvents,
            LAMBDA event : hourOf(event) # NaN /\ hourOf(event) < 12)

\* an afternoon that starts after 12 o'clock
getEventsAfterTwelve(dayEvents) ==
  SelectSeq(dayEvents,
            LAMBDA event : hourOf(event) # NaN /\ hourOf(event) > 12)

\* getAfternoonEvents(dayEvents): hour >= 12 (false for NaN)
getAfternoonEvents(dayEvents) ==
  SelectSeq(dayEvents,
            LAMBDA event : hourOf(event) # NaN /\ hourOf(event) >= 12)

\* the amount navigateWeek adds to currentWeek.getDate()
weekShift(direction) == IF direction = "next" THEN 7 ELSE -7

\* a navigation that moves to the Monday of the neighbouring week
navigatedToMonday(date, direction) ==
  setDate(startOfWeek(date), getDate(startOfWeek(date)) + weekShift(direction))

\* navigateWeek: newDate = new Date(currentWeek);
\* newDate.setDate(currentWeek.getDate() + (direction === 'next' ? 7 : -7))
navigatedDate(date, direction) ==
  setDate(date, getDate(date) + weekShift(direction))

-----------------------------------------------------------------------------
(* State machine *)

\* the EventForm state while the dialog is closed (the form is not mounted)
noForm == initialFormData(0)

NoArg == [ op |-> "", id |-> Undefined, tag |-> <<>> ]

Init ==
  \E t \in StartClocks :
    /\ now = t
    /\ cases = sampleCases(t)
    /\ events = flatten(sampleCases(t))
    /\ isModalOpen = FALSE
    /\ editingEvent = <<>>
    /\ formData = noForm
    /\ view = "weekly"
    /\ casesState = sampleCases(t)
    /\ newTag = <<>>
    /\ editingTags = <<>>
    /\ currentWeek = t
    /\ timeZone = 0
    /\ filter = "all"
    /\ sortBy = "date"
    /\ searchQuery = <<>>
    /\ expandedCases = {}
    /\ expandedHearings = {}
    /\ nOps = 0
    /\ lastOp = [NoArg EXCEPT !.op = "mount"]

\* the system clock advances
Tick ==
  /\ now < MaxClock
  /\ now' = now + 1
  /\ lastOp' = lastOp
  /\ UNCHANGED << cases, events, modalVars, listVars, view, nOps >>
  /\ UNCHANGED << weekVars, queryVars, expandVars >>

\* Calendar.openAddModal.  The dialog is modal: the button that opens it is
\* out of reach while it is open.  The EventForm is mounted with the dialog.
openAddModal ==
  /\ ~isModalOpen
  /\ editingEvent' = <<>>
  /\ isModalOpen' = TRUE
  /\ formData' = initialFormData(now)
  /\ lastOp' = lastOp
  /\ UNCHANGED << cases, events, listVars, view, now, nOps >>
  /\ UNCHANGED << weekVars, queryVars, expandVars >>

\* Calendar.openEditModal(event), called by a view with one of the events;
\* the EventForm is mounted and its effect fills it from the event
openEditModal(event) ==
  /\ ~isModalOpen
  /\ editingEvent' = << event >>
  /\ isModalOpen' = TRUE
  /\ formData' = formDataOf(event)
  /\ lastOp' = lastOp
  /\ UNCHANGED << cases, events, listVars, view, now, nOps >>
  /\ UNCHANGED << weekVars, queryVars, expandVars >>

\* Calendar.closeModal
closeModal ==
  /\ isModalOpen' = FALSE
  /\ editingEvent' = <<>>
  /\ formData' = noForm
  /\ lastOp' = lastOp
  /\ UNCHANGED << cases, events, listVars, view, now, nOps >>
  /\ UNCHANGED << weekVars, queryVars, expandVars >>

\* EventForm.handleChange(field, value)
handleChange(field, value) ==
  /\ isModalOpen
  /\ formData' = [formData EXCEPT ![field] = value]
  /\ lastOp' = lastOp
  /\ UNCHANGED << cases, events, isModalOpen, editingEvent,
                  listVars, view, now, nOps >>
  /\ UNCHANGED << weekVars, queryVars, expandVars >>

\* EventForm.handleSubmit, with onSave = editingEvent ? handleEditEvent
\*                                                    : handleAddEvent
handleSubmit ==
  /\ isModalOpen
  /\ IF ~isValid(formData)
     THEN /\ lastOp' = [NoArg EXCEPT !.op = "handleSubmit"]
          /\ UNCHANGED << cases, events, modalVars, nOps >>
     ELSE /\ nOps < MaxOps
          /\ nOps' = nOps + 1
          /\ cases' = cases
          /\ IF editingEvent # <<>>
             THEN /\ events' = handleEditEvent(events, editingEvent[1],
                                               eventDataOf(formData))
                  /\ editingEvent' = <<>>
                  /\ lastOp' = [NoArg EXCEPT !.op = "handleEditEvent",
                                             !.id = editingEvent[1].id]
             ELSE /\ events' = handleAddEvent(events, eventDataOf(formData),
                                              now)
                  /\ editingEvent' = editingEvent
                  /\ lastOp' =
                       [NoArg EXCEPT !.op = "handleAddEvent",
                                     !.id = newId(now)]
          /\ isModalOpen' = FALSE
          /\ formData' = noForm
  /\ UNCHANGED << listVars, view, now >>
  /\ UNCHANGED << weekVars, queryVars, expandVars >>

\* Calendar.handleDeleteEvent(eventId), called by a view
deleteEvent(eventId) ==
  /\ nOps < MaxOps
  /\ nOps' = nOps + 1
  /\ events' = handleDeleteEvent(events, eventId)
  /\ lastOp' = [NoArg EXCEPT !.op = "handleDeleteEvent", !.id = eventId]
  /\ UNCHANGED << cases, modalVars, listVars, view, now >>
  /\ UNCHANGED << weekVars, queryVars, expandVars >>

\* setView: the weekly view and the list view are mounted in turn; a
\* mounted ListView starts from its initial state, casesState = cases
setView(v) ==
  /\ view' = v
  /\ IF v = "list" /\ view # "list"
     THEN /\ casesState' = cases
          /\ newTag' = <<>>
          /\ editingTags' = <<>>
          /\ filter' = "all"
          /\ sortBy' = "date"
          /\ searchQuery' = <<>>
          /\ expandedCases' = {}
          /\ expandedHearings' = {}
     ELSE UNCHANGED << listVars, queryVars, expandVars >>
  /\ lastOp' = lastOp
  /\ UNCHANGED << cases, events, modalVars, now, nOps, weekVars >>

\* ListView: onChange of the tag input
setNewTag(value) ==
  /\ view = "list"
  /\ newTag' = value
  /\ lastOp' = lastOp
  /\ UNCHANGED << cases, events, modalVars, casesState, editingTags,
                  view, now, nOps >>
  /\ UNCHANGED << weekVars, queryVars, expandVars >>

\* ListView: the tag editor of a case is opened
setEditingTags(caseId) ==
  /\ view = "list"
  /\ editingTags' = << caseId >>
  /\ lastOp' = lastOp
  /\ UNCHANGED << cases, events, modalVars, casesState, newTag,
                  view, now, nOps >>
  /\ UNCHANGED << weekVars, queryVars, expandVars >>

\* ListView.handleAddTag(caseId)
handleAddTag(caseId) ==
  /\ view = "list"
  /\ IF trim(newTag) # <<>>
     THEN /\ nOps < MaxOps
          /\ nOps' = nOps + 1
          /\ casesState' = addTag(casesState, caseId, trim(newTag))
          /\ newTag' = <<>>
          /\ editingTags' = <<>>
          /\ lastOp' = [NoArg EXCEPT !.op = "handleAddTag", !.id = caseId,
                                     !.tag = newTag]
     ELSE UNCHANGED << listVars, nOps, lastOp >>
  /\ UNCHANGED << cases, events, modalVars, view, now >>
  /\ UNCHANGED << weekVars, queryVars, expandVars >>

\* ListView.handleRemoveTag(caseId, tagToRemove)
handleRemoveTag(caseId, tagToRemove) ==
  /\ view = "list"
  /\ nOps < MaxOps
  /\ nOps' = nOps + 1
  /\ casesState' = removeTag(casesState, caseId, tagToRemove)
  /\ newTag' = <<>>
  /\ editingTags' = <<>>
  /\ lastOp' = [NoArg EXCEPT !.op = "handleRemoveTag", !.id = caseId,
                             !.tag = tagToRemove]
  /\ UNCHANGED << cases, events, modalVars, view, now >>
  /\ UNCHANGED << weekVars, queryVars, expandVars >>

Range(seq) == { seq[i] : i \in 1..Len(seq) }

CaseIds(cs) == { cs[i].id : i \in 1..Len(cs) }

EventIds(es) == { e.id : e \in Range(es) }

AllTags(cs) == UNION { Range(cs[i].tags) : i \in 1..Len(cs) }

FormFields == DOMAIN FieldInputs

\* the events a view lets the user pick
Targets(es) ==
  { es[i] : i \in { j \in 1..Len(es) : j > Len(es) - MaxTargets } }

\* the Calendar with its views and the EventForm dialog
Next ==
  \/ Tick
  \/ openAddModal
  \/ \E event \in Targets(events) : openEditModal(event)
  \/ closeModal
  \/ \E field \in FormFields : \E value \in FieldInputs[field] :
       handleChange(field, value)
  \/ handleSubmit
  \/ \E eventId \in { e.id : e \in Targets(events) } \cup {UnknownEventId} :
       deleteEvent(eventId)

Spec == Init /\ [][Next]_vars

\* the ListView and its tag editor
NextList ==
  \/ \E v \in {"weekly", "list"} : setView(v)
  \/ \E value \in TagInputs : setNewTag(value)
  \/ \E caseId \in CaseIds(casesState) : setEditingTags(caseId)
  \/ \E caseId \in CaseIds(casesState) \cup {UnknownCaseId} :
       handleAddTag(caseId)
  \/ \E caseId \in CaseIds(casesState) \cup {UnknownCaseId} :
       \E tag \in AllTags(casesState) \cup {AbsentTag} :
         handleRemoveTag(caseId, tag)

SpecList == Init /\ [][NextList]_vars

-----------------------------------------------------------------------------
(* The flattening as a function of the Case collection *)

\* number of Cases and of Hearings per Case in the collections flattened
MaxCases == 2
MaxHearings == 2

SeqsUpTo(S, n) == UNION { [1..k -> S] : k \in 0..n }

HearingInputs ==
  { [ id |-> "h1", title |-> <<"T","1">>, notes |-> <<"n","1">>, date |-> 5,
      startTime |-> <<"0","9",":","0","0">>,
      endTime |-> <<"1","0",":","0","0">>, status |-> "new" ],
    [ id |-> "h2", title |-> <<"T","2">>, notes |-> <<>>, date |-> 6,
      startTime |-> <<"1","4",":","0","0">>,
      endTime |-> <<"1","5",":","3","0">>, status |-> "cancelled" ] }

CaseInputs ==
  { [ id |-> c.id, caseNumber |-> c.caseNumber, title |-> c.title,
      description |-> c.description, tags |-> c.tags, hearings |-> hs ] :
      c \in { [ id |-> "c1", caseNumber |-> <<"N","1">>, title |-> <<"C","1">>,
                description |-> <<"d","1">>, tags |-> << <<"x">> >> ],
              [ id |-> "c2", caseNumber |-> <<"N","2">>, title |-> <<"C","2">>,
                description |-> <<>>, tags |-> <<>> ] },
      hs \in SeqsUpTo(HearingInputs, MaxHearings) }

\* the state of Calendar before its mount effect has run
InitProject ==
  \E t \in StartClocks :
    /\ now = t
    /\ cases = <<>>
    /\ events = <<>>
    /\ isModalOpen = FALSE
    /\ editingEvent = <<>>
    /\ formData = noForm
    /\ view = "weekly"
    /\ casesState = <<>>
    /\ newTag = <<>>
    /\ editingTags = <<>>
    /\ currentWeek = t
    /\ timeZone = 0
    /\ filter = "all"
    /\ sortBy = "date"
    /\ searchQuery = <<>>
    /\ expandedCases = {}
    /\ expandedHearings = {}
    /\ nOps = 0
    /\ lastOp = NoArg

\* Calendar's mount effect, with the Case collection cs in place of sampleCases
mountEffect(cs) ==
  /\ lastOp.op = ""
  /\ cases' = cs
  /\ events' = flatten(cs)
  /\ lastOp' = [NoArg EXCEPT !.op = "mount"]
  /\ UNCHANGED << modalVars, listVars, view, now, nOps >>
  /\ UNCHANGED << weekVars, queryVars, expandVars >>

NextProject ==
  \E cs \in SeqsUpTo(CaseInputs, MaxCases) \cup { sampleCases(now) } :
    mountEffect(cs)

SpecProject == InitProject /\ [][NextProject]_vars

-----------------------------------------------------------------------------
(* The weekly view over the dates of a range and the time zones *)

\* Calendar mounted at any time of one of the days FirstDay..LastDay (UTC),
\* in any of the time zones
InitWeek ==
  \E t \in (FirstDay * DayMs)..((LastDay + 1) * DayMs - 1), z \in TimeZones :
    /\ now = t
    /\ cases = sampleCases(t)
    /\ events = flatten(sampleCases(t))
    /\ isModalOpen = FALSE
    /\ editingEvent = <<>>
    /\ formData = noForm
    /\ view = "weekly"
    /\ casesState = sampleCases(t)
    /\ newTag = <<>>
    /\ editingTags = <<>>
    /\ currentWeek = t
    /\ timeZone = z
    /\ filter = "all"
    /\ sortBy = "date"
    /\ searchQuery = <<>>
    /\ expandedCases = {}
    /\ expandedHearings = {}
    /\ nOps = 0
    /\ lastOp = [NoArg EXCEPT !.op = "mount"]

\* WeeklyView.navigateWeek(direction): onWeekChange is setCurrentWeek
navigateWeek(direction) ==
  /\ view = "weekly"
  /\ LET newDate_ == navigatedDate(currentWeek, direction)
     IN /\ LocalDay(newDate_) - LocalDay(now) <= 7 * MaxWeeks
        /\ LocalDay(now) - LocalDay(newDate_) <= 7 * MaxWeeks
        /\ currentWeek' = newDate_
  /\ lastOp' = [NoArg EXCEPT !.op = "navigateWeek", !.id = direction]
  /\ UNCHANGED << cases, events, modalVars, listVars, view, now, timeZone,
                  queryVars, expandVars, nOps >>

NextWeek ==
  \E direction \in { "prev", "next" } : navigateWeek(direction)

SpecWeek == InitWeek /\ [][NextWeek]_vars

-----------------------------------------------------------------------------
(* The weekly view with hearings saved through the form *)

\* Calendar is mounted on Friday 3 April 1970, at the first or at the last
\* time unit of the day (UTC)
DayClocks == { 92 * DayMs, 92 * DayMs + DayMs - 1 }

\* what the user types into the form: a title, a case number and one of the
\* dates Saturday 4 April and Monday 6 April 1970 (the date the form starts
\* with is the day of the mount)
DayFieldInputs ==
  [ title |-> { << "T" >> },
    caseNumber |-> { << "N" >> },
    date |-> { 93, 95 } ]

InitDay ==
  \E t \in DayClocks, z \in TimeZones :
    /\ now = t
    /\ cases = sampleCases(t)
    /\ events = flatten(sampleCases(t))
    /\ isModalOpen = FALSE
    /\ editingEvent = <<>>
    /\ formData = noForm
    /\ view = "weekly"
    /\ casesState = sampleCases(t)
    /\ newTag = <<>>
    /\ editingTags = <<>>
    /\ currentWeek = t
    /\ timeZone = z
    /\ filter = "all"
    /\ sortBy = "date"
    /\ searchQuery = <<>>
    /\ expandedCases = {}
    /\ expandedHearings = {}
    /\ nOps = 0
    /\ lastOp = [NoArg EXCEPT !.op = "mount"]

NextDay ==
  \/ \E direction \in { "prev", "next" } : navigateWeek(direction)
  \/ openAddModal
  \/ \E field \in DOMAIN DayFieldInputs :
       \E value \in DayFieldInputs[field] : handleChange(field, value)
  \/ handleSubmit

SpecDay == InitDay /\ [][NextDay]_vars

-----------------------------------------------------------------------------
(* The morning and the afternoon of the days of the displayed week *)

\* what the user types into the form: a title, a case number and one of the
\* start times 12:00 and 11:59 (the form starts with 09:00)
HalfDayFieldInputs ==
  [ title |-> { << "T" >> },
    caseNumber |-> { << "N" >> },
    startTime |-> { << "1", "2", ":", "0", "0" >>,
                    << "1", "1", ":", "5", "9" >> } ]

\* Calendar mounted on Friday 3 April 1970, local time being UTC
InitHalfDay == InitDay /\ timeZone = 0

NextHalfDay ==
  \/ openAddModal
  \/ \E field \in DOMAIN HalfDayFieldInputs :
       \E value \in HalfDayFieldInputs[field] : handleChange(field, value)
  \/ handleSubmit

SpecHalfDay == InitHalfDay /\ [][NextHalfDay]_vars

-----------------------------------------------------------------------------
(* The list view over drawn Case collections, searches, filters and sorts *)

\* two Cases with three hearings: the first hearing of Case a at the first
\* or the second time unit of day 2, its second hearing at the first time
\* unit of day 2, the hearing of Case b a day before or a day after
QueryCases(a, b, d1, d2) ==
  << [ id |-> a, caseNumber |-> <<"N","2">>, title |-> <<"A","l","p","h","a">>,
       description |-> <<>>, tags |-> << <<"x">> >>,
       hearings |-> <<
         [ id |-> "h1", title |-> <<"O","n","e">>, notes |-> <<>>,
           date |-> 2 * DayMs + d1, startTime |-> <<"0","8",":","3","0">>,
           endTime |-> <<"1","0",":","0","0">>, status |-> "new" ],
         [ id |-> "h2", title |-> <<"T","w","o">>, notes |-> <<>>,
           date |-> 2 * DayMs, startTime |-> <<"0","9",":","0","0">>,
           endTime |-> <<"1","0",":","0","0">>, status |-> "cancelled" ] >> ],
     [ id |-> b, caseNumber |-> <<"N","1">>, title |-> <<"B","e","t","a">>,
       description |-> <<>>, tags |-> <<>>,
       hearings |-> <<
         [ id |-> "h3", title |-> <<"T","h","r","e","e">>, notes |-> <<>>,
           date |-> 2 * DayMs + d2 * DayMs, startTime |-> <<"1","0",":","0","0">>,
           endTime |-> <<"1","1",":","0","0">>, status |-> "new" ] >> ] >>

\* the Case collections the list view is given: those above, under ids that
\* read as integers and ids that do not, and the seed
QueryCaseInputs ==
  { QueryCases(ids[1], ids[2], d1, d2) :
      ids \in { << "1", "2" >>, << "2", "1" >>, << "a", "b" >> },
      d1 \in { 0, 1 }, d2 \in { -1, 1 } }

\* what the user types into the search box
SearchInputs ==
  { <<>>, << " " >>, <<"m","e","d","i","c","a","l">>, <<"m","e","d","i","c","a","l"," ">>, <<"S","M","I","T","H">> }

\* what the user types into the Add Hearing form
QueryFieldInputs ==
  [ title |-> { << "T" >> }, caseNumber |-> { <<"N","1">> } ]

\* ListView: onChange of the search box
setSearchQuery(value) ==
  /\ view = "list"
  /\ searchQuery' = value
  /\ lastOp' = lastOp
  /\ UNCHANGED << cases, events, modalVars, listVars, view, now, weekVars,
                  expandVars,
                  filter, sortBy, nOps >>

\* ListView: a click on one of the status buttons
setFilter(status) ==
  /\ view = "list"
  /\ filter' = status
  /\ lastOp' = lastOp
  /\ UNCHANGED << cases, events, modalVars, listVars, view, now, weekVars,
                  expandVars,
                  sortBy, searchQuery, nOps >>

\* ListView: a click on one of the sort buttons
setSortBy(sort_) ==
  /\ view = "list"
  /\ sortBy' = sort_
  /\ lastOp' = lastOp
  /\ UNCHANGED << cases, events, modalVars, listVars, view, now, weekVars,
                  expandVars,
                  filter, searchQuery, nOps >>

\* Calendar after its mount effect, with one of the Case collections in
\* place of sampleCases
InitQuery ==
  \E t \in StartClocks : \E cs \in QueryCaseInputs \cup { sampleCases(t) } :
    /\ now = t
    /\ cases = cs
    /\ events = flatten(cs)
    /\ isModalOpen = FALSE
    /\ editingEvent = <<>>
    /\ formData = noForm
    /\ view = "weekly"
    /\ casesState = cs
    /\ newTag = <<>>
    /\ editingTags = <<>>
    /\ currentWeek = t
    /\ timeZone = 0
    /\ filter = "all"
    /\ sortBy = "date"
    /\ searchQuery = <<>>
    /\ expandedCases = {}
    /\ expandedHearings = {}
    /\ nOps = 0
    /\ lastOp = [NoArg EXCEPT !.op = "mount"]

NextQuery ==
  \/ \E v \in { "weekly", "list" } : setView(v)
  \/ \E value \in SearchInputs : setSearchQuery(value)
  \/ \E status \in { "all", "new", "rescheduled", "cancelled" } :
       setFilter(status)
  \/ \E sort_ \in { "date", "case", "title" } : setSortBy(sort_)
  \/ openAddModal
  \/ \E field \in DOMAIN QueryFieldInputs :
       \E value \in QueryFieldInputs[field] : handleChange(field, value)
  \/ handleSubmit

SpecQuery == InitQuery /\ [][NextQuery]_vars

-----------------------------------------------------------------------------
(* The list view: expanding and collapsing Cases and hearings *)

\* a toggle that only ever adds the id
toggledOn(expanded, id) == expanded \cup { id }

\* newExpanded = new Set(expanded); has(id) ? delete(id) : add(id)
toggled(expanded, id) ==
  IF id \in expanded THEN expanded \ { id } ELSE expanded \cup { id }

\* what the history keeps of a toggle: how the id stood before it
wasExpanded(expanded, id) ==
  IF id \in expanded THEN << "expanded" >> ELSE << "collapsed" >>

\* ListView.toggleCaseExpansion(caseId), from the header of a group
toggleCaseExpansion(caseId) ==
  /\ view = "list"
  /\ expandedCases' = toggled(expandedCases, caseId)
  /\ lastOp' = [NoArg EXCEPT !.op = "toggleCaseExpansion", !.id = caseId,
                             !.tag = wasExpanded(expandedCases, caseId)]
  /\ UNCHANGED << cases, events, modalVars, listVars, view, now, weekVars,
                  queryVars, expandedHearings, nOps >>

\* ListView.toggleHearingExpansion(hearingId), from a hearing of a group
toggleHearingExpansion(hearingId) ==
  /\ view = "list"
  /\ expandedHearings' = toggled(expandedHearings, hearingId)
  /\ lastOp' = [NoArg EXCEPT !.op = "toggleHearingExpansion",
                             !.id = hearingId,
                             !.tag = wasExpanded(expandedHearings, hearingId)]
  /\ UNCHANGED << cases, events, modalVars, listVars, view, now, weekVars,
                  queryVars, expandedCases, nOps >>

\* the keys of the groups the list shows
ShownCaseIds ==
  LET shown == groups
  IN  { shown[i].key : i \in 1..Len(shown) }

\* the ids of the hearings the list shows: those of the groups of the
\* expanded Cases
ShownHearingIds ==
  LET shown == groups
      open == { n \in 1..Len(shown) : shown[n].key \in expandedCases }
  IN  UNION { { h.id : h \in Range(shown[n].hearings) } : n \in open }

NextExpand ==
  \/ \E v \in { "weekly", "list" } : setView(v)
  \/ \E status \in { "all", "cancelled" } : setFilter(status)
  \/ \E sort_ \in { "date", "title" } : setSortBy(sort_)
  \/ \E caseId \in ShownCaseIds : toggleCaseExpansion(caseId)
  \/ \E hearingId \in ShownHearingIds : toggleHearingExpansion(hearingId)

SpecExpand == Init /\ [][NextExpand]_vars

-----------------------------------------------------------------------------
(* The dialog: the handlers of Calendar in any order *)

\* Calendar.openAddModal called while the dialog is open: the EventForm stays
\* mounted, its effect finds no initialEvent and leaves the fields alone
openAddModalWhileOpen ==
  /\ isModalOpen
  /\ editingEvent' = <<>>
  /\ isModalOpen' = TRUE
  /\ formData' = formData
  /\ lastOp' = lastOp
  /\ UNCHANGED << cases, events, listVars, view, now, nOps >>
  /\ UNCHANGED << weekVars, queryVars, expandVars >>

\* Calendar.openEditModal(event) called while the dialog is open: the effect
\* of the mounted EventForm fills the fields from the event when
\* initialEvent is another object than before, which an equal Event may or
\* may not be
openEditModalWhileOpen(event) ==
  /\ isModalOpen
  /\ editingEvent' = << event >>
  /\ isModalOpen' = TRUE
  /\ \/ formData' = formDataOf(event)
     \/ editingEvent = << event >> /\ formData' = formData
  /\ lastOp' = lastOp
  /\ UNCHANGED << cases, events, listVars, view, now, nOps >>
  /\ UNCHANGED << weekVars, queryVars, expandVars >>

NextModal ==
  \/ openAddModal
  \/ openAddModalWhileOpen
  \/ \E event \in Targets(events) : openEditModal(event)
  \/ \E event \in { events[i] : i \in { Len(events) } \ { 0 } } :
       openEditModalWhileOpen(event)
  \/ closeModal
  \/ \E field \in { "title", "caseNumber" } :
       \E value \in QueryFieldInputs[field] : handleChange(field, value)
  \/ handleSubmit
  \/ \E eventId \in { e.id : e \in Targets(events) } : deleteEvent(eventId)

SpecModal == Init /\ [][NextModal]_vars

-----------------------------------------------------------------------------
(* Properties *)

\* a step in which handleSubmit passed its data to handleAddEvent
AddStep == nOps' = nOps + 1 /\ lastOp'.op = "handleAddEvent"

\* a step in which handleSubmit passed its data to handleEditEvent
EditStep == nOps' = nOps + 1 /\ lastOp'.op = "handleEditEvent"

\* a step in which handleDeleteEvent ran
DeleteStep == nOps' = nOps + 1 /\ lastOp'.op = "handleDeleteEvent"

\* the string consists of white space only
Blank(s) == \A i \in 1..Len(s) : s[i] = " "

\* s without its leading and trailing white space
Stripped(s) ==
  IF Blank(s) THEN <<>>
  ELSE LET first == CHOOSE i \in 1..Len(s) :
                      s[i] # " " /\ \A k \in 1..(i - 1) : s[k] = " "
           last == CHOOSE i \in 1..Len(s) :
                     s[i] # " " /\ \A k \in (i + 1)..Len(s) : s[k] = " "
       IN SubSeq(s, first, last)

\* the ids of the Hearings owned by the Cases
HearingIds(cs) ==
  UNION { { cs[i].hearings[j].id : j \in 1..Len(cs[i].hearings) } :
            i \in 1..Len(cs) }

\* C1: after an add of a hearing for the case with the case number typed
\* into the form, the Event collection holds exactly one Event with the new
\* id whose parentId is that case's id.
C1_AddedEventBelongsToCase ==
  [][ AddStep =>
        \A k \in 1..Len(cases) :
          cases[k].caseNumber = Stripped(formData.caseNumber) =>
            Cardinality({ i \in 1..Len(events') :
                            /\ events'[i].id = lastOp'.id
                            /\ events'[i].parentId = cases[k].id }) = 1 ]_vars

\* C2: every Event's parentId is the id of exactly one Case.
C2_EveryEventHasOneParentCase ==
  \A i \in 1..Len(events) :
    Cardinality({ k \in 1..Len(cases) : cases[k].id = events[i].parentId }) = 1

\* C3: the ids of the Events are pairwise distinct.
C3_EventIdsDistinct ==
  \A i, j \in 1..Len(events) : i # j => events[i].id # events[j].id

\* C4: the hearing ids owned by the Cases are exactly the ids of the Events.
C4_CasesOwnExactlyTheEvents ==
  HearingIds(cases) = EventIds(events)

\* C5: a save while editing replaces every Event carrying the edited id by
\* the submitted data under the same id and at the same position; the
\* collection keeps its length and every Event with another id is unchanged;
\* when no Event carries the id the collection is unchanged.
C5_EditReplacesInPlace ==
  [][ EditStep =>
        /\ editingEvent # <<>>
        /\ Len(events') = Len(events)
        /\ \A i \in 1..Len(events) :
             IF events[i].id = editingEvent[1].id
             THEN events'[i] =
                    [eventDataOf(formData) EXCEPT !.id = events[i].id]
             ELSE events'[i] = events[i]
        /\ (editingEvent[1].id \notin EventIds(events) => events' = events)
    ]_vars

\* C5 witness: an edit has replaced an Event that is not the last one (the
\* replacement carries no parentId), and nothing was added or removed.
C5_Witness ==
  /\ lastOp.op = "handleEditEvent"
  /\ Len(events) = 5
  /\ \E i \in 1..(Len(events) - 1) :
       events[i].id = lastOp.id /\ events[i].parentId = Undefined

\* C6: a delete removes exactly the Events carrying the given id; the other
\* Events stay, unchanged and in their relative order; for an id that no
\* Event carries the collection is unchanged.
C6_DeleteRemovesMatching ==
  [][ DeleteStep =>
        LET Kept == { i \in 1..Len(events) : events[i].id # lastOp'.id }
        IN /\ Len(events') = Cardinality(Kept)
           /\ \A i \in Kept :
                events'[Cardinality({ k \in Kept : k <= i })] = events[i]
           /\ (lastOp'.id \notin EventIds(events) => events' = events)
    ]_vars

\* C6 witness: the seeded hearing '2-h1' (fourth of five) has been deleted
\* and '2-h2' has moved up behind '1-h3'.
C6_Witness ==
  /\ lastOp.op = "handleDeleteEvent"
  /\ lastOp.id = "2-h1"
  /\ Len(events) = 4
  /\ events[3].id = "1-h3"
  /\ events[4].id = "2-h2"

\* C7: while the title or the case number in the form is blank, no step
\* saves (neither handleAddEvent nor handleEditEvent runs), and a submission
\* leaves the Event and Case collections as they are.
C7_BlankSubmissionRejected ==
  [][ (isModalOpen /\ (Blank(formData.title) \/ Blank(formData.caseNumber)))
        => /\ ~AddStep
           /\ ~EditStep
           /\ handleSubmit =>
                /\ events' = events
                /\ cases' = cases
                /\ nOps' = nOps
                /\ lastOp'.op = "handleSubmit"
                /\ isModalOpen'
    ]_vars

\* C7 witness: a form whose title is a single space, with a case number
\* filled in, has been submitted and rejected.
C7_Witness ==
  /\ isModalOpen
  /\ lastOp.op = "handleSubmit"
  /\ formData.title = << " " >>
  /\ ~Blank(formData.caseNumber)
  /\ nOps = 0
  /\ Len(events) = 5

RECURSIVE Offset(_, _)
\* number of Hearings owned by the Cases before the i-th
Offset(cs, i) ==
  IF i <= 1 THEN 0 ELSE Offset(cs, i - 1) + Len(cs[i - 1].hearings)

\* C8: the flattening emits one Event per owned Hearing, Case-major and
\* Hearing-minor in storage order, with the id, notes, date, times and status
\* of the Hearing and the id (as parentId), case number and description of
\* the Case.
C8_ProjectCaseMajor ==
  lastOp.op = "mount" =>
    /\ Len(events) = Offset(cases, Len(cases) + 1)
    /\ \A i \in 1..Len(cases) : \A j \in 1..Len(cases[i].hearings) :
         LET e == events[Offset(cases, i) + j]
             h == cases[i].hearings[j]
         IN /\ e.id = h.id
            /\ e.parentId = cases[i].id
            /\ e.caseNumber = cases[i].caseNumber
            /\ e.description = cases[i].description
            /\ e.notes = h.notes
            /\ e.date = h.date
            /\ e.startTime = h.startTime
            /\ e.endTime = h.endTime
            /\ e.status = h.status

\* C8 witness: the seeded Cases (three and two Hearings) have been flattened
\* into five Events.
C8_Witness ==
  /\ lastOp.op = "mount"
  /\ cases = sampleCases(now)
  /\ Len(events) = 5
  /\ events[4].id = "2-h1"

\* a step in which handleAddTag ran with a tag that is not blank
AddTagStep == nOps' = nOps + 1 /\ lastOp'.op = "handleAddTag"

\* a step in which handleRemoveTag ran
RemoveTagStep == nOps' = nOps + 1 /\ lastOp'.op = "handleRemoveTag"

\* C9: handleAddTag appends the trimmed tag to the tags of the Case with the
\* given id unless the trimmed tag is empty or already among them, and then
\* changes nothing; no other Case changes.  A blank tag leaves the whole
\* state as it is (there is no AddTagStep for it).
C9_AddTagTrimsAndDeduplicates ==
  [][ /\ AddTagStep =>
           LET tag == Stripped(lastOp'.tag)
           IN /\ lastOp'.tag = newTag
              /\ Len(casesState') = Len(casesState)
              /\ \A i \in 1..Len(casesState) :
                   casesState'[i] =
                     IF /\ casesState[i].id = lastOp'.id
                        /\ tag # <<>>
                        /\ tag \notin Range(casesState[i].tags)
                     THEN [casesState[i] EXCEPT !.tags = @ \o << tag >>]
                     ELSE casesState[i]
      /\ \A caseId \in CaseIds(casesState) \cup {UnknownCaseId} :
           (Blank(newTag) /\ handleAddTag(caseId)) => UNCHANGED casesState
    ]_vars

\* C9 witness: ' x ' has been added to case '1' as its fifth tag 'x', and the
\* tags of case '2' are those of the seed.
C9_Witness ==
  /\ nOps = 1
  /\ lastOp.op = "handleAddTag"
  /\ lastOp.id = "1"
  /\ lastOp.tag = << " ", "x", " " >>
  /\ casesState[1].tags = cases[1].tags \o << << "x" >> >>
  /\ casesState[2].tags = cases[2].tags

RECURSIVE RemoveFirst(_, _)
\* the sequence without the first occurrence of x
RemoveFirst(seq, x) ==
  IF seq = <<>> THEN <<>>
  ELSE IF Head(seq) = x THEN Tail(seq)
       ELSE << Head(seq) >> \o RemoveFirst(Tail(seq), x)

\* C10: handleRemoveTag removes the first occurrence of the tag from the tags
\* of the Case with the given id and keeps the other tags in order; no other
\* Case changes; for a tag the Case does not carry and for an unknown case id
\* the Cases are unchanged.
C10_RemoveTagRemovesFirstMatch ==
  [][ RemoveTagStep =>
        /\ Len(casesState') = Len(casesState)
        /\ \A i \in 1..Len(casesState) :
             casesState'[i] =
               IF casesState[i].id = lastOp'.id
               THEN [casesState[i] EXCEPT
                       !.tags = RemoveFirst(@, lastOp'.tag)]
               ELSE casesState[i]
        /\ ( \/ lastOp'.id \notin CaseIds(casesState)
             \/ \A i \in 1..Len(casesState) :
                  casesState[i].id = lastOp'.id =>
                    lastOp'.tag \notin Range(casesState[i].tags) )
           => casesState' = casesState
    ]_vars

\* C10 witness: 'construction', the second of the four tags of case '1', has
\* been removed and the other three are left in order.
C10_Witness ==
  /\ nOps = 1
  /\ lastOp.op = "handleRemoveTag"
  /\ lastOp.id = "1"
  /\ Len(casesState[1].tags) = 3
  /\ casesState[1].tags = << cases[1].tags[1], cases[1].tags[3],
                             cases[1].tags[4] >>
  /\ casesState[2].tags = cases[2].tags


\* the tags of seq have no duplicate
NoDuplicates(seq) ==
  \A i, j \in 1..Len(seq) : seq[i] = seq[j] => i = j

\* the position of x in seq (0 when absent)
IndexOf(seq, x) ==
  IF \E i \in 1..Len(seq) : seq[i] = x
  THEN CHOOSE i \in 1..Len(seq) :
         seq[i] = x /\ \A j \in 1..(i - 1) : seq[j] # x
  ELSE 0

\* every tag of before that is left in after keeps its place relative to the
\* others, and a tag that is only in after comes after all the others
InsertionOrderKept(before, after) ==
  /\ \A a, b \in Range(before) \cap Range(after) :
       IndexOf(before, a) < IndexOf(before, b)
         => IndexOf(after, a) < IndexOf(after, b)
  /\ \A a \in Range(after) \ Range(before) :
       \A b \in Range(before) \cap Range(after) :
         IndexOf(after, b) < IndexOf(after, a)

\* C11: starting from the seed, whose Cases carry no tag twice, no Case
\* carries a tag twice after any sequence of handleAddTag and handleRemoveTag,
\* and every such step keeps the tags in insertion order: the tags that stay
\* keep their relative order and an added tag is the last one.
C11_TagsDistinctInInsertionOrder ==
  /\ [](\A i \in 1..Len(casesState) : NoDuplicates(casesState[i].tags))
  /\ [][ (AddTagStep \/ RemoveTagStep) =>
           /\ Len(casesState') = Len(casesState)
           /\ \A i \in 1..Len(casesState) :
                InsertionOrderKept(casesState[i].tags, casesState'[i].tags)
       ]_vars

\* C11 witness: after removing 'construction' from case '1' and adding 'x' to
\* it, its tags are contract, dispute, commercial, x.
C11_Witness ==
  /\ nOps = 2
  /\ lastOp.op = "handleAddTag"
  /\ lastOp.id = "1"
  /\ casesState[1].tags = << cases[1].tags[1], cases[1].tags[3],
                             cases[1].tags[4], << "x" >> >>
  /\ NoDuplicates(casesState[1].tags)


\* C12: for every reference date (Saturdays, Sundays and dates next to a
\* month boundary included) getWeekDays returns five consecutive calendar
\* days, Monday to Friday; for a Sunday the Monday is six days before the
\* reference date, for any other day of the week it is (weekday - 1) days
\* before it.
C12_WeekDaysMondayToFriday ==
  LET week == getWeekDays(currentWeek)
  IN /\ Len(week) = 5
     /\ \A i \in 1..5 :
          /\ getDay(week[i]) = i
          /\ LocalDay(week[i]) = LocalDay(week[1]) + (i - 1)
     /\ LocalDay(currentWeek) - LocalDay(week[1]) =
          IF getDay(currentWeek) = 0 THEN 6 ELSE getDay(currentWeek) - 1

\* C12 witness: the reference date is Sunday 5 April 1970 and the week
\* starts on Monday 30 March, in the month before.
C12_Witness ==
  /\ toDateString(currentWeek) = << 0, 4, 5 >>
  /\ toDateString(getWeekDays(currentWeek)[1]) = << 1, 3, 30 >>
  /\ toDateString(getWeekDays(currentWeek)[5]) = << 5, 4, 3 >>
  /\ lastOp.op = "navigateWeek"


\* the calendar day of an Event: for an Event saved through the form (it
\* carries no parentId) the day that was entered as YYYY-MM-DD, for a
\* hearing of the seed the local day of its date
CalendarDay(event) ==
  IF event.parentId = Undefined THEN toISODate(event.date)
  ELSE LocalDay(event.date)

\* C13: for each day of the displayed week getEventsForDay returns exactly
\* the events whose calendar day is that day, in every time zone and for
\* every time of day, the events saved through the form with a YYYY-MM-DD
\* date included.
C13_EventsOfTheSameCalendarDay ==
  \A i \in 1..5 :
    LET day == getWeekDays(currentWeek)[i]
    IN \A k \in 1..Len(events) :
         (events[k] \in Range(getEventsForDay(day)))
           <=> (CalendarDay(events[k]) = LocalDay(day))


\* the day buckets of the displayed week in which an Event is shown
BucketsOf(event) ==
  { i \in 1..5 :
      event \in Range(getEventsForDay(getWeekDays(currentWeek)[i])) }

\* C14: an Event whose calendar day is a Saturday or a Sunday is in none of
\* the five day buckets, and an Event whose calendar day is one of the five
\* days of the displayed week is in exactly one bucket.
C14_WeekendHiddenWeekdaysOnce ==
  \A k \in 1..Len(events) :
    LET day == CalendarDay(events[k])
        monday == LocalDay(getWeekDays(currentWeek)[1])
    IN /\ (day + 4) % 7 \in { 0, 6 } => BucketsOf(events[k]) = {}
       /\ day \in monday..(monday + 4)
            => Cardinality(BucketsOf(events[k])) = 1


\* a step in which navigateWeek ran
NavigateStep == currentWeek' # currentWeek /\ lastOp'.op = "navigateWeek"

\* C15: navigateWeek moves the reference date by exactly seven days forward
\* ('next') or backward ('prev') and does not snap it to a Monday; the five
\* days of the new week are those of the old week moved by seven days; and
\* 'next' followed by 'prev' gives the reference date back.
C15_NavigateWeekShiftsBySevenDays ==
  /\ [][ NavigateStep =>
           /\ currentWeek' = currentWeek + weekShift(lastOp'.id) * DayMs
           /\ timeZone' = timeZone
           /\ \A i \in 1..5 :
                getWeekDays(currentWeek')[i] =
                  getWeekDays(currentWeek)[i] + weekShift(lastOp'.id) * DayMs
       ]_vars
  /\ [](navigatedDate(navigatedDate(currentWeek, "next"), "prev")
          = currentWeek)

\* C15 witness: the reference date is a Wednesday of April, one week after
\* the Wednesday 1 April on which Calendar was mounted, and the displayed
\* week is 6-10 April.
C15_Witness ==
  /\ lastOp = [NoArg EXCEPT !.op = "navigateWeek", !.id = "next"]
  /\ toDateString(now) = << 3, 4, 1 >>
  /\ toDateString(currentWeek) = << 3, 4, 8 >>
  /\ toDateString(getWeekDays(currentWeek)[1]) = << 1, 4, 6 >>


\* the text q is part of the lower-cased title, description, case number,
\* of a tag or of the title or notes of a hearing of the Case
TextOccursInCase(caseItem, q) ==
  \/ \E text \in { caseItem.title, caseItem.description, caseItem.caseNumber }
                   \cup Range(caseItem.tags) :
       stringIncludes(toLowerCase(text), q)
  \/ \E i \in 1..Len(caseItem.hearings) :
       \/ stringIncludes(toLowerCase(caseItem.hearings[i].title), q)
       \/ stringIncludes(toLowerCase(caseItem.hearings[i].notes), q)

\* C16: a Case passes the search exactly when the trimmed, lower-cased
\* search text is part of its lower-cased title, description, case number,
\* of one of its tags or of the title or notes of one of its hearings; a
\* search text that is empty after trimming passes every Case, and white
\* space around the search text makes no difference.
C16_SearchIsTrimmedAndCaseInsensitive ==
  view = "list" =>
    \A i \in 1..Len(casesState) :
      (casesState[i] \in Range(filteredCases))
        <=> TextOccursInCase(casesState[i], toLowerCase(trim(searchQuery)))


\* the Event passes the status filter and its parentId is the id of a Case
\* that passed the search
PassesFilterOfPassingCase(event, passing) ==
  /\ filter = "all" \/ event.status = filter
  /\ \E c \in passing : c.id = event.parentId

\* C17: an Event is kept exactly when the status filter is 'all' or equals
\* its status and its parentId is the id of a Case that passed the search;
\* the search text is never matched against the Event itself, so that a
\* Case found through a tag keeps all its Events that pass the status
\* filter.  No Event is kept twice.
C17_EventsKeptByStatusAndCase ==
  view = "list" =>
    LET kept == Range(filteredEvents)
        passing == Range(filteredCases)
    IN /\ \A k \in 1..Len(events) :
            (events[k] \in kept)
              <=> PassesFilterOfPassingCase(events[k], passing)
       /\ kept \subseteq Range(events)
       /\ Len(filteredEvents) =
            Cardinality({ k \in 1..Len(events) :
                            PassesFilterOfPassingCase(events[k], passing) })

\* C17 witness: the search text 'medical' finds case '2' of the seed through
\* its tag; both hearings of case '2' are kept although neither title nor
\* notes of them holds the text, and the hearing added through the form,
\* which has no parentId, is not kept.
C17_Witness ==
  /\ view = "list"
  /\ filter = "all"
  /\ searchQuery = << "m", "e", "d", "i", "c", "a", "l" >>
  /\ \E k \in 1..Len(events) : events[k].parentId = Undefined
  /\ { e.id : e \in Range(filteredEvents) } = { "2-h1", "2-h2" }
  /\ \A e \in Range(filteredEvents) :
       /\ e.parentId = "2"
       /\ ~stringIncludes(toLowerCase(e.title), searchQuery)
       /\ ~stringIncludes(toLowerCase(e.notes), searchQuery)


RECURSIVE FirstAppearances(_)
\* the elements of a sequence in the order of their first appearance
FirstAppearances(seq) ==
  IF seq = <<>> THEN <<>>
  ELSE LET front == FirstAppearances(SubSeq(seq, 1, Len(seq) - 1))
       IN IF seq[Len(seq)] \in Range(front) THEN front
          ELSE Append(front, seq[Len(seq)])

C20_GroupsHoldExactlyTheKeptEvents ==
  view = "list" =>
    LET sorted == filteredEvents
        shown == groups
    IN /\ \A i \in 1..Len(shown) :
            /\ shown[i].hearings # <<>>
            /\ shown[i].hearings =
                 SelectSeq(sorted, LAMBDA e : e.parentId = shown[i].key)
            /\ \A j \in 1..Len(shown) : shown[j].key = shown[i].key => j = i
       /\ \A k \in 1..Len(sorted) :
            \E i \in 1..Len(shown) : shown[i].key = sorted[k].parentId
       /\ \A c \in Range(casesState) :
            (\A k \in 1..Len(sorted) : sorted[k].parentId # c.id)
              => \A i \in 1..Len(shown) : shown[i].key # c.id

\* C20 witness: with the filter 'cancelled' and no search text the seed
\* shows one group, that of case '2' with its cancelled hearing '2-h1';
\* case '1' passed the search and has no group.
C20_Witness ==
  /\ view = "list"
  /\ filter = "cancelled"
  /\ searchQuery = <<>>
  /\ Len(filteredCases) = 2
  /\ Len(groups) = 1
  /\ groups[1].key = "2"
  /\ Len(groups[1].hearings) = 1
  /\ groups[1].hearings[1].id = "2-h1"


\* the tags the list view colours: those of the Cases and the tag being typed
ColouredTags == AllTags(casesState) \cup { newTag, trim(newTag), <<>> }

RECURSIVE SumOfCodes(_)
\* the sum of the character codes of a text
SumOfCodes(text) ==
  IF text = <<>> THEN 0
  ELSE charCodeAt(Head(text)) + SumOfCodes(Tail(text))

\* C21: for every text, the empty one included, getTagColor is the palette
\* entry at the index (sum of the character codes) modulo the palette size;
\* the palette has at least eight entries.  (The entry depends on the text
\* only, so the same text always gets the same entry.)
C21_TagColourBySumOfCodes ==
  /\ Len(tagColors) >= 8
  /\ \A tag \in ColouredTags :
       LET entry == tagColors[(SumOfCodes(tag) % Len(tagColors)) + 1]
       IN getTagColor(tag) = << entry.base, " ", entry.hover >>

\* C21 witness: 'x' (code 120) has been added to case '1' and is shown in
\* the first colour, as the empty text is; 'contract' (codes summing to 862)
\* is shown in the third colour.
C21_Witness ==
  /\ lastOp.op = "handleAddTag"
  /\ << "x" >> \in Range(casesState[1].tags)
  /\ getTagColor(<< "x" >>) = << tagColors[1].base, " ", tagColors[1].hover >>
  /\ getTagColor(<<>>) = getTagColor(<< "x" >>)
  /\ casesState[1].tags[1] = << "c", "o", "n", "t", "r", "a", "c", "t" >>
  /\ getTagColor(casesState[1].tags[1])
       = << "bg-yellow-100 text-yellow-800", " ",
            "hover:bg-yellow-200 hover:text-yellow-900" >>


\* the text starts with the given prefix
StartsWith(text, prefix) ==
  /\ Len(prefix) <= Len(text)
  /\ SubSeq(text, 1, Len(prefix)) = prefix

\* C22: the title of every Event of the collection, seeded, added or updated
\* through the form, is its caseNumber field, then ': ', then the title of
\* the hearing, also when the case number was typed with white space around
\* it.
C22_TitleIsCaseNumberColonTitle ==
  \A k \in 1..Len(events) :
    StartsWith(events[k].title, events[k].caseNumber \o << ":", " " >>)


\* the hour of a start time HH:MM, read off its first two characters
HourOfStart(event) ==
  10 * (CHOOSE d \in 0..9 : Digits[d + 1] = event.startTime[1])
    + (CHOOSE d \in 0..9 : Digits[d + 1] = event.startTime[2])

\* C23: of the events of each day of the displayed week, the morning list
\* holds those whose start hour is below 12 and the afternoon list all the
\* others, each in the order of the events of the day; so every event of the
\* day is in exactly one of the two lists.
C23_MorningBeforeTwelveAfternoonOtherwise ==
  \A i \in 1..5 :
    LET dayEvents == getEventsForDay(getWeekDays(currentWeek)[i])
        morning == getMorningEvents(dayEvents)
        afternoon == getAfternoonEvents(dayEvents)
    IN /\ morning = SelectSeq(dayEvents, LAMBDA e : HourOfStart(e) < 12)
       /\ afternoon = SelectSeq(dayEvents, LAMBDA e : ~(HourOfStart(e) < 12))
       /\ Len(morning) + Len(afternoon) = Len(dayEvents)
       /\ Range(morning) \cap Range(afternoon) = {}

\* C23 witness: Friday 3 April shows the three hearings of case '1' and two
\* hearings saved through the form, one at 11:59 and one at 12:00; the
\* morning list holds 09:00, 11:00 and 11:59, the afternoon list 14:00 and
\* 12:00, both in the order of the collection.
C23_Witness ==
  LET dayEvents == getEventsForDay(getWeekDays(currentWeek)[5])
      morning == getMorningEvents(dayEvents)
      afternoon == getAfternoonEvents(dayEvents)
  IN /\ nOps = 2
     /\ Len(dayEvents) = 5
     /\ Len(morning) = 3
     /\ Len(afternoon) = 2
     /\ [ k \in 1..3 |-> morning[k].startTime ]
          = << << "0", "9", ":", "0", "0" >>, << "1", "1", ":", "0", "0" >>,
               << "1", "1", ":", "5", "9" >> >>
     /\ [ k \in 1..2 |-> afternoon[k].startTime ]
          = << << "1", "4", ":", "0", "0" >>, << "1", "2", ":", "0", "0" >> >>


\* a step in which toggleCaseExpansion ran
ToggleCaseStep == lastOp' # lastOp /\ lastOp'.op = "toggleCaseExpansion"

\* a step in which toggleHearingExpansion ran
ToggleHearingStep ==
  lastOp' # lastOp /\ lastOp'.op = "toggleHearingExpansion"

\* what a toggle has to leave alone: the search text, the status filter, the
\* sort key, the Cases and the Events; filteredCases, filteredEvents and
\* groupedByCases are computed from these alone
ToggleFrame == << searchQuery, filter, sortBy, cases, casesState, events >>

\* the Events that pass events.filter, before the sort
keptEvents == SelectSeq(events, retained)

\* C24: toggling a Case or a hearing changes the membership of that id in
\* the respective set of expanded ids and of no other id, leaves the other
\* set, the search text, the status filter, the sort key, the Cases, the
\* Events and with them the Cases and Events that pass the search and the
\* status filter unchanged, and toggling the same id again gives the set
\* back.
C24_ToggleChangesOneMembership ==
  [][ /\ ToggleCaseStep =>
           /\ \A id \in expandedCases \cup expandedCases' :
                (id \in expandedCases') <=>
                  ((id \in expandedCases) # (id = lastOp'.id))
           /\ lastOp'.id \in expandedCases' <=> lastOp'.id \notin expandedCases
           /\ toggled(expandedCases', lastOp'.id) = expandedCases
           /\ UNCHANGED << expandedHearings, ToggleFrame >>
           /\ filteredCases' = filteredCases
           /\ keptEvents' = keptEvents
      /\ ToggleHearingStep =>
           /\ \A id \in expandedHearings \cup expandedHearings' :
                (id \in expandedHearings') <=>
                  ((id \in expandedHearings) # (id = lastOp'.id))
           /\ lastOp'.id \in expandedHearings'
                <=> lastOp'.id \notin expandedHearings
           /\ toggled(expandedHearings', lastOp'.id) = expandedHearings
           /\ UNCHANGED << expandedCases, ToggleFrame >>
           /\ filteredCases' = filteredCases
           /\ keptEvents' = keptEvents
    ]_vars

\* C24 witness: case '1' is expanded, its hearing '1-h2' has been expanded
\* and collapsed again, '1-h1' is still expanded, and the list shows both
\* groups with all five hearings.
C24_Witness ==
  /\ view = "list"
  /\ lastOp = [NoArg EXCEPT !.op = "toggleHearingExpansion", !.id = "1-h2",
                            !.tag = << "expanded" >>]
  /\ expandedCases = { "1" }
  /\ expandedHearings = { "1-h1" }
  /\ Len(groups) = 2
  /\ Len(filteredEvents) = 5


\* a step in which the edit dialog is saved with the fields as the dialog
\* filled them in from the Event
UnchangedEditStep ==
  /\ EditStep
  /\ editingEvent # <<>>
  /\ formData = formDataOf(editingEvent[1])

\* C25: saving the edit dialog without changing any field leaves the flat
\* Event collection unchanged: every Event, the saved one included, keeps
\* its id, parentId, title, caseNumber, description, notes, date, times and
\* status.
C25_UnchangedEditKeepsEvents ==
  [][ UnchangedEditStep => events' = events ]_vars


\* the places of the list: group i, hearing j of the group
PlacesOf(shown) ==
  UNION { { << i, j >> : j \in 1..Len(shown[i].hearings) } :
            i \in 1..Len(shown) }

\* C26: with no search text and the status filter 'all', whatever hearings
\* were added, updated or deleted, every Event of the flat collection is a
\* hearing of exactly one group of the list view, and the groups hold as
\* many hearings as there are Events.
C26_EveryEventInExactlyOneGroup ==
  (view = "list" /\ searchQuery = <<>> /\ filter = "all") =>
    LET shown == groups
    IN /\ \A k \in 1..Len(events) :
            Cardinality({ i \in 1..Len(shown) :
                            events[k] \in Range(shown[i].hearings) }) = 1
       /\ Cardinality(PlacesOf(shown)) = Len(events)


\* the tag sequence of every Case the list view holds
caseTags == [ i \in 1..Len(casesState) |-> casesState[i].tags ]

\* C27: the tag sequences of the Cases change only in a step of addTag or
\* removeTag; a switch of the view, to the weekly view or back to the list,
\* and the adding, updating or deleting of a hearing leave them as the last
\* tag operation left them.
C27_TagsChangeOnlyByTagOperations ==
  [][ ~(AddTagStep \/ RemoveTagStep) => caseTags' = caseTags ]_vars


\* a step in which the form called onSave
SaveStep ==
  /\ nOps' = nOps + 1
  /\ lastOp'.op \in { "handleAddEvent", "handleEditEvent" }

\* C28: whatever the order of openAddModal, openEditModal, closeModal, save
\* and delete, an Event being edited implies that the dialog is open; a save
\* while an Event is being edited keeps the number of Events, and a save
\* while none is being edited adds exactly one Event and closes the dialog.
C28_EditingImpliesOpenAndSavesCount ==
  /\ [](editingEvent # <<>> => isModalOpen)
  /\ [][ SaveStep =>
           IF editingEvent # <<>>
           THEN Len(events') = Len(events)
           ELSE /\ Len(events') = Len(events) + 1
                /\ ~isModalOpen'
       ]_vars

\* C28 witness: the Event being edited was deleted while the dialog was
\* open and the dialog was then saved: the save found no Event of that id,
\* four of the five seeded Events are left and the dialog is closed.
C28_Witness ==
  /\ lastOp.op = "handleEditEvent"
  /\ lastOp.id \notin EventIds(events)
  /\ nOps = 2
  /\ Len(events) = 4
  /\ editingEvent = <<>>
  /\ ~isModalOpen

=============================================================================
